---- MODULE Spec2Model ----
(***************************************************************************)
(* Model of crescentrose/audio_switcher: enumeration of Bluetooth radios   *)
(* and devices through the Win32 Bluetooth API, and the field conversions  *)
(* applied to each raw record.                                             *)
(*                                                                         *)
(* Five specifications share the variables:                                *)
(*   Spec         get_bluetooth_devices (bluetooth::device and main.rs)     *)
(*   SpecRadio    get_bluetooth_radio, Radio use and Radio drop             *)
(*   SpecAddress  BLUETOOTH_ADDRESS -> Address -> to_string                 *)
(*   SpecString   u16_slice_to_string                                       *)
(*   SpecClass    from_class_identifier                                     *)
(* Strings are sequences of Unicode scalar values (u16_slice_to_string) or *)
(* sequences of one-character strings (Address::to_string).                *)
(***************************************************************************)
EXTENDS Integers, Sequences, FiniteSets, TLC

VARIABLES
    \* ---- get_bluetooth_devices ----
    pc,             \* position in get_bluetooth_devices
    version,        \* "lib" = bluetooth::device, "main" = main.rs, "none" before the call
    device_handle,  \* cursor returned by BluetoothFindFirstDevice (0 = none)
    device_info,    \* the single BLUETOOTH_DEVICE_INFO buffer the OS writes into
    devices,        \* Vec<Device> being built
    ret,            \* "none", "Ok", "NoDevicesFound", "panic"
    calls,          \* Win32 calls issued so far, in order
    yielded,        \* records the OS has written into device_info, in order
    \* ---- get_bluetooth_radio / Radio ----
    rcount,         \* number of get_bluetooth_radio calls made so far
    find_handle,    \* handle returned by BluetoothFindFirstRadio (0 = none)
    radio,          \* local HANDLE written by BluetoothFindFirstRadio
    radio_info,     \* szName of BLUETOOTH_RADIO_INFO
    rret,           \* result of the last get_bluetooth_radio
    rcalls,         \* Win32 calls of the get_bluetooth_radio in progress / last finished
    radios,         \* every Radio value returned so far
    openHandles,    \* radio handles currently open in the OS
    staleUse,       \* a Win32 call was issued on a radio handle that is not open
    \* ---- Address ----
    rgBytes,        \* BLUETOOTH_ADDRESS.Anonymous.rgBytes
    address,        \* Address.address / BluetoothAddress.address (lib, main)
    addrText,       \* to_string() of both
    apc,
    \* ---- u16_slice_to_string ----
    slice,          \* input &[u16]
    text,           \* result (lib, main)
    spc,
    \* ---- from_class_identifier ----
    identifier,
    class,          \* result (lib, main)
    cpc

vars == <<pc, version, device_handle, device_info, devices, ret, calls, yielded,
          rcount, find_handle, radio, radio_info, rret, rcalls, radios, openHandles, staleUse,
          rgBytes, address, addrText, apc, slice, text, spc, identifier, class, cpc>>

devVars == <<pc, version, device_handle, device_info, devices, ret, calls, yielded>>
radioVars == <<rcount, find_handle, radio, radio_info, rret, rcalls, radios, openHandles, staleUse>>
addrVars == <<rgBytes, address, addrText, apc>>
strVars == <<slice, text, spc>>
classVars == <<identifier, class, cpc>>

----------------------------------------------------------------------------
(* Bounds *)

MaxDevices == 3     \* records the OS yields in one enumeration
MaxRadios == 2      \* Radio values created in one behaviour
MaxLen == 4         \* length of the enumerated u16 buffers
ClassSpan == 30     \* identifiers enumerated around the two known classes
MaxUses == 2        \* get_device_services calls made with one Radio

----------------------------------------------------------------------------
(* Sequence helpers *)

RECURSIVE Reverse(_)
\* slice::reverse
Reverse(s) == IF s = <<>> THEN <<>> ELSE Reverse(Tail(s)) \o <<Head(s)>>

RECURSIVE Join(_, _)
\* [String]::join(sep)
Join(parts, sep) ==
    IF parts = <<>> THEN <<>>
    ELSE IF Len(parts) = 1 THEN parts[1]
    ELSE parts[1] \o sep \o Join(Tail(parts), sep)

RECURSIVE Zeros(_)
Zeros(n) == IF n = 0 THEN <<>> ELSE <<0>> \o Zeros(n - 1)

SeqsUpTo(S, n) == UNION { [1..k -> S] : k \in 0..n }

----------------------------------------------------------------------------
(* Device class lookup *)

from_class_identifier_swapped(id) ==
    IF id = 2360340 THEN "Headphones"
    ELSE IF id = 2360344 THEN "Speaker"
    ELSE "Other"

\* bluetooth::device::from_class_identifier
from_class_identifier(id) ==
    IF id = 2360340 THEN "Speaker"
    ELSE IF id = 2360344 THEN "Headphones"
    ELSE "Other"

\* main.rs from_class_identifier
main_from_class_identifier(id) ==
    IF id = 2360340 THEN "Speaker"
    ELSE IF id = 2360344 THEN "Headphones"
    ELSE "Other"

----------------------------------------------------------------------------
(* Bluetooth address *)

HexDigits == <<"0", "1", "2", "3", "4", "5", "6", "7",
               "8", "9", "a", "b", "c", "d", "e", "f">>

\* LowerHex for u8: the digits of v in base 16, no leading zero
LowerHex(v) ==
    IF v < 16 THEN <<HexDigits[v + 1]>>
    ELSE <<HexDigits[(v \div 16) + 1], HexDigits[(v % 16) + 1]>>

Format02x_unpadded(v) == LowerHex(v)

\* format!("{:02x}", v): LowerHex, zero-padded on the left to width 2
Format02x(v) ==
    LET h == LowerHex(v)
    IN  IF Len(h) < 2 THEN <<"0">> \o h ELSE h

\* impl From<BLUETOOTH_ADDRESS> for Address
Address_from(value) == [address |-> Reverse(value)]

\* Address::to_string
Address_to_string(self) ==
    Join([i \in 1..Len(self.address) |-> Format02x(self.address[i])], <<":">>)

\* main.rs: impl From<BLUETOOTH_ADDRESS> for BluetoothAddress
BluetoothAddress_from(value) == [address |-> Reverse(value)]

\* main.rs: BluetoothAddress::to_string
BluetoothAddress_to_string(self) ==
    Join([i \in 1..Len(self.address) |-> Format02x(self.address[i])], <<":">>)

----------------------------------------------------------------------------
(* UTF-16 name buffers *)

RECURSIVE from_utf16_lossy(_)
\* String::from_utf16_lossy: a unit outside D800..DFFF is itself; a high
\* surrogate followed by a low surrogate is one supplementary scalar; any
\* other surrogate becomes U+FFFD and the unit after it is decoded afresh.
from_utf16_lossy(v) ==
    IF v = <<>> THEN <<>>
    ELSE LET u == Head(v)
         IN  IF u < 55296 \/ u > 57343
                THEN <<u>> \o from_utf16_lossy(Tail(v))
             ELSE IF u >= 56320
                THEN <<65533>> \o from_utf16_lossy(Tail(v))
             ELSE IF Len(v) >= 2 /\ v[2] >= 56320 /\ v[2] <= 57343
                THEN <<65536 + (u - 55296) * 1024 + (v[2] - 56320)>>
                        \o from_utf16_lossy(Tail(Tail(v)))
             ELSE <<65533>> \o from_utf16_lossy(Tail(v))

RECURSIVE trim_start_matches(_, _)
trim_start_matches(s, c) ==
    IF s # <<>> /\ Head(s) = c THEN trim_start_matches(Tail(s), c) ELSE s

RECURSIVE trim_end_matches(_, _)
trim_end_matches(s, c) ==
    IF s # <<>> /\ s[Len(s)] = c
        THEN trim_end_matches(SubSeq(s, 1, Len(s) - 1), c)
        ELSE s

\* str::trim_matches(c): strips c from both ends, nothing in between
trim_matches(s, c) == trim_end_matches(trim_start_matches(s, c), c)

u16_slice_to_string_untrimmed(s) == from_utf16_lossy(s)

\* bluetooth::util::u16_slice_to_string
u16_slice_to_string(s) == trim_matches(from_utf16_lossy(s), 0)

\* main.rs u16_slice_to_string
main_u16_slice_to_string(s) == trim_matches(from_utf16_lossy(s), 0)

----------------------------------------------------------------------------
(* SYSTEMTIME -> Time *)

None == [is_some |-> FALSE]
Some(v) == [is_some |-> TRUE, val |-> v]

IsLeapYear(y) == (y % 4 = 0 /\ y % 100 # 0) \/ y % 400 = 0

DaysInMonth(y, m) ==
    IF m = 2 THEN (IF IsLeapYear(y) THEN 29 ELSE 28)
    ELSE IF m \in {4, 6, 9, 11} THEN 30
    ELSE 31

\* NaiveDate::from_ymd_opt on a u16 year (always inside chrono's year range)
from_ymd_opt(y, m, d) ==
    IF m >= 1 /\ m <= 12 /\ d >= 1 /\ d <= DaysInMonth(y, m)
        THEN Some([year |-> y, month |-> m, day |-> d])
        ELSE None

\* NaiveDate::and_hms_opt
and_hms_opt(date, h, mi, s) ==
    IF h < 24 /\ mi < 60 /\ s < 60
        THEN Some([date |-> date, hour |-> h, minute |-> mi, second |-> s])
        ELSE None

\* impl Into<Time> for SYSTEMTIME; None stands for the panic of an unwrap()
SYSTEMTIME_into_Time(st) ==
    LET d == from_ymd_opt(st.wYear, st.wMonth, st.wDay)
    IN  IF ~d.is_some THEN None
        ELSE and_hms_opt(d.val, st.wHour, st.wMinute, st.wSecond)

\* main.rs: impl Into<SystemTime> for SYSTEMTIME
SYSTEMTIME_into_SystemTime(st) ==
    LET d == from_ymd_opt(st.wYear, st.wMonth, st.wDay)
    IN  IF ~d.is_some THEN None
        ELSE and_hms_opt(d.val, st.wHour, st.wMinute, st.wSecond)

----------------------------------------------------------------------------
(* BLUETOOTH_DEVICE_INFO -> Device *)

\* impl Into<Device> for BLUETOOTH_DEVICE_INFO; None when a field panics
IntoDevice(self) ==
    LET seen == SYSTEMTIME_into_Time(self.stLastSeen)
        used == SYSTEMTIME_into_Time(self.stLastUsed)
    IN  IF ~seen.is_some \/ ~used.is_some THEN None
        ELSE Some([class |-> from_class_identifier(self.ulClassofDevice),
                   address |-> Address_from(self.Address),
                   connected |-> self.fConnected # 0,
                   remembered |-> self.fRemembered # 0,
                   authenticated |-> self.fAuthenticated # 0,
                   name |-> u16_slice_to_string(self.szName),
                   last_seen |-> seen.val,
                   last_connected |-> used.val,
                   device_info |-> self])

\* main.rs: impl Into<BluetoothDevice> for BLUETOOTH_DEVICE_INFO
IntoBluetoothDevice(self) ==
    LET seen == SYSTEMTIME_into_SystemTime(self.stLastSeen)
        used == SYSTEMTIME_into_SystemTime(self.stLastUsed)
    IN  IF ~seen.is_some \/ ~used.is_some THEN None
        ELSE Some([class |-> main_from_class_identifier(self.ulClassofDevice),
                   address |-> BluetoothAddress_from(self.Address),
                   connected |-> self.fConnected # 0,
                   remembered |-> self.fRemembered # 0,
                   authenticated |-> self.fAuthenticated # 0,
                   name |-> main_u16_slice_to_string(self.szName),
                   last_seen |-> seen.val,
                   last_connected |-> used.val])

----------------------------------------------------------------------------
(* What the OS can hand back *)

ST(y, m, d, h, mi, s) ==
    [wYear |-> y, wMonth |-> m, wDay |-> d, wHour |-> h, wMinute |-> mi, wSecond |-> s]

Info(addr, name, cod, conn, seen, used) ==
    [Address |-> addr, szName |-> name, ulClassofDevice |-> cod,
     fConnected |-> conn, fRemembered |-> 1, fAuthenticated |-> 1,
     stLastSeen |-> seen, stLastUsed |-> used]

\* BLUETOOTH_DEVICE_INFO::default(): every field zero
DefaultInfo ==
    [Address |-> Zeros(6), szName |-> Zeros(8), ulClassofDevice |-> 0,
     fConnected |-> 0, fRemembered |-> 0, fAuthenticated |-> 0,
     stLastSeen |-> ST(0, 0, 0, 0, 0, 0), stLastUsed |-> ST(0, 0, 0, 0, 0, 0)]

\* Records whose two timestamps are calendar dates
GoodRecords ==
    { Info(<<102, 85, 68, 51, 34, 17>>, <<104, 101, 108, 108, 111, 0, 0, 0>>, 2360340, 1,
           ST(2023, 4, 30, 23, 59, 59), ST(2023, 4, 30, 23, 59, 59)),
      Info(<<1, 2, 3, 4, 5, 6>>, <<98, 117, 100, 115, 0, 0, 0, 0>>, 2360344, 0,
           ST(2024, 2, 29, 0, 0, 0), ST(2023, 12, 31, 8, 30, 0)),
      Info(<<255, 0, 171, 9, 16, 15>>, <<107, 98, 0, 0, 0, 0, 0, 0>>, 1344, 0,
           ST(2000, 1, 1, 0, 0, 0), ST(2022, 6, 15, 12, 0, 0)) }

\* Records with a timestamp that is no calendar date or time of day: never
\* seen (all zero), never used (all zero), 31 April, 29 February 2023,
\* hour 24, month 0, day 0
OddRecords ==
    { Info(<<10, 11, 12, 13, 14, 15>>, <<110, 101, 119, 0, 0, 0, 0, 0>>, 2360344, 0,
           ST(0, 0, 0, 0, 0, 0), ST(0, 0, 0, 0, 0, 0)),
      Info(<<10, 11, 12, 13, 14, 16>>, <<110, 101, 119, 0, 0, 0, 0, 0>>, 2360340, 0,
           ST(2023, 5, 1, 10, 0, 0), ST(0, 0, 0, 0, 0, 0)),
      Info(<<10, 11, 12, 13, 14, 17>>, <<97, 0, 0, 0, 0, 0, 0, 0>>, 0, 0,
           ST(2023, 4, 31, 12, 0, 0), ST(2023, 4, 30, 12, 0, 0)),
      Info(<<10, 11, 12, 13, 14, 18>>, <<98, 0, 0, 0, 0, 0, 0, 0>>, 0, 0,
           ST(2023, 2, 29, 12, 0, 0), ST(2023, 2, 28, 12, 0, 0)),
      Info(<<10, 11, 12, 13, 14, 19>>, <<99, 0, 0, 0, 0, 0, 0, 0>>, 0, 1,
           ST(2023, 6, 15, 24, 0, 0), ST(2023, 6, 15, 23, 0, 0)),
      Info(<<10, 11, 12, 13, 14, 20>>, <<100, 0, 0, 0, 0, 0, 0, 0>>, 0, 1,
           ST(2023, 0, 10, 1, 0, 0), ST(2023, 1, 10, 1, 0, 0)),
      Info(<<10, 11, 12, 13, 14, 21>>, <<101, 0, 0, 0, 0, 0, 0, 0>>, 0, 1,
           ST(2023, 5, 0, 1, 0, 0), ST(2023, 5, 1, 1, 0, 0)) }

DeviceRecords == GoodRecords \cup OddRecords

\* Non-zero values of HBLUETOOTH_DEVICE_FIND
Cursors == {7, 9}

Call(fn, arg, res) == [fn |-> fn, arg |-> arg, res |-> res]

----------------------------------------------------------------------------
(* get_bluetooth_devices *)

InitDevices ==
    /\ pc = "idle"
    /\ version = "none"
    /\ device_handle = 0
    /\ device_info = DefaultInfo
    /\ devices = <<>>
    /\ ret = "none"
    /\ calls = <<>>
    /\ yielded = <<>>

IdleDevices ==
    /\ pc = "off"
    /\ version = "none"
    /\ device_handle = 0
    /\ device_info = DefaultInfo
    /\ devices = <<>>
    /\ ret = "none"
    /\ calls = <<>>
    /\ yielded = <<>>

Convert(v, info) == IF v = "lib" THEN IntoDevice(info) ELSE IntoBluetoothDevice(info)

PushFront(v, info) ==
    LET d == Convert(v, info)
    IN  IF d.is_some
            THEN /\ devices' = <<d.val>> \o devices
                 /\ pc' = "loop"
                 /\ ret' = ret
            ELSE /\ devices' = devices
                 /\ pc' = "panicked"
                 /\ ret' = "panic"

\* devices.push(device_info.into()): the conversion either yields a value that
\* is appended, or an unwrap() in it panics and the function unwinds
Push(v, info) ==
    LET d == Convert(v, info)
    IN  IF d.is_some
            THEN /\ devices' = Append(devices, d.val)
                 /\ pc' = "loop"
                 /\ ret' = ret
            ELSE /\ devices' = devices
                 /\ pc' = "panicked"
                 /\ ret' = "panic"

\* BluetoothFindFirstDevice and the code up to the loop (both versions)
FindFirst(v) ==
    /\ pc = "idle"
    /\ version' = v
    /\ \/ /\ device_handle' = 0
          /\ calls' = Append(calls, Call("BluetoothFindFirstDevice", 0, 0))
          /\ ret' = "NoDevicesFound"
          /\ pc' = "done"
          /\ UNCHANGED <<device_info, devices, yielded>>
       \/ \E h \in Cursors, r \in DeviceRecords :
            /\ device_handle' = h
            /\ calls' = Append(calls, Call("BluetoothFindFirstDevice", 0, h))
            /\ device_info' = r
            /\ yielded' = Append(yielded, r)
            /\ Push(v, r)

\* One BluetoothFindNextDevice that returns TRUE, and the loop body
FindNextTrue(v) ==
    /\ pc = "loop"
    /\ version = v
    /\ Len(yielded) < MaxDevices
    /\ \E r \in DeviceRecords :
            /\ calls' = Append(calls, Call("BluetoothFindNextDevice", device_handle, 1))
            /\ device_info' = r
            /\ yielded' = Append(yielded, r)
            /\ Push(v, r)
    /\ UNCHANGED <<version, device_handle>>

\* bluetooth::device: BluetoothFindNextDevice returns FALSE, the cursor is
\* closed and Ok(devices) is returned
lib_Exhausted ==
    /\ pc = "loop"
    /\ version = "lib"
    /\ calls' = calls \o <<Call("BluetoothFindNextDevice", device_handle, 0),
                          Call("BluetoothFindDeviceClose", device_handle, 1)>>
    /\ ret' = "Ok"
    /\ pc' = "done"
    /\ UNCHANGED <<version, device_handle, device_info, devices, yielded>>

\* main.rs: BluetoothFindNextDevice returns FALSE and Ok(devices) is returned
main_Exhausted ==
    /\ pc = "loop"
    /\ version = "main"
    /\ calls' = Append(calls, Call("BluetoothFindNextDevice", device_handle, 0))
    /\ ret' = "Ok"
    /\ pc' = "done"
    /\ UNCHANGED <<version, device_handle, device_info, devices, yielded>>

\* bluetooth::device::get_bluetooth_devices
get_bluetooth_devices ==
    /\ \/ FindFirst("lib")
       \/ FindNextTrue("lib")
       \/ lib_Exhausted
    /\ UNCHANGED <<radioVars, addrVars, strVars, classVars>>

\* main.rs get_bluetooth_devices
main_get_bluetooth_devices ==
    /\ \/ FindFirst("main")
       \/ FindNextTrue("main")
       \/ main_Exhausted
    /\ UNCHANGED <<radioVars, addrVars, strVars, classVars>>

----------------------------------------------------------------------------
(* get_bluetooth_radio, Radio *)

\* Non-zero values of HBLUETOOTH_RADIO_FIND
FindHandles == {21, 22}

\* Values the OS can give a radio HANDLE; it never hands out one that is open
RadioHandles == {10 + k : k \in 1..(MaxRadios + 1)}

\* szName after BluetoothGetRadioInfo: a name, or still zero when it failed
RadioNames == { <<114, 97, 100, 0, 0, 0, 0, 0>>, Zeros(8) }

InitRadio ==
    /\ rcount = 0
    /\ find_handle = 0
    /\ radio = 0
    /\ radio_info = Zeros(8)
    /\ rret = "none"
    /\ rcalls = <<>>
    /\ radios = <<>>
    /\ openHandles = {}
    /\ staleUse = FALSE

IdleRadio ==
    /\ rcount = MaxRadios
    /\ find_handle = 0
    /\ radio = 0
    /\ radio_info = Zeros(8)
    /\ rret = "none"
    /\ rcalls = <<>>
    /\ radios = <<>>
    /\ openHandles = {}
    /\ staleUse = FALSE

RadioCalls_CloseFirst(fh, h) ==
    <<Call("BluetoothFindFirstRadio", h, fh),
      Call("BluetoothFindRadioClose", fh, 1),
      Call("BluetoothGetRadioInfo", h, 0)>>

\* The Win32 calls of a get_bluetooth_radio whose find handle fh is non-zero;
\* h is the radio handle BluetoothFindFirstRadio wrote
RadioCalls(fh, h) ==
    <<Call("BluetoothFindFirstRadio", h, fh),
      Call("BluetoothGetRadioInfo", h, 0),
      Call("BluetoothFindRadioClose", fh, 1)>>

\* Radio { handle, name }, with the bookkeeping of what is later done to it
NewRadio(h, szName) ==
    [handle |-> h, name |-> u16_slice_to_string(szName),
     state |-> "live", closes |-> 0, uses |-> 0]

\* bluetooth::radio::get_bluetooth_radio
get_bluetooth_radio ==
    /\ rcount < MaxRadios
    /\ rcount' = rcount + 1
    /\ \/ /\ find_handle' = 0
          /\ radio' = 0
          /\ radio_info' = Zeros(8)
          /\ rcalls' = <<Call("BluetoothFindFirstRadio", 0, 0)>>
          /\ rret' = "NoRadiosFound"
          /\ UNCHANGED <<radios, openHandles, staleUse>>
       \/ \E fh \in FindHandles, h \in RadioHandles \ openHandles, nm \in RadioNames :
            /\ find_handle' = fh
            /\ radio' = h
            /\ radio_info' = nm
            /\ rcalls' = RadioCalls(fh, h)
            /\ openHandles' = openHandles \cup {h}
            /\ radios' = Append(radios, NewRadio(h, nm))
            /\ rret' = "Ok"
            /\ UNCHANGED staleUse
    /\ UNCHANGED <<devVars, addrVars, strVars, classVars>>

\* Device::get_device_services(&self, radio: &Radio): only a Radio that has not
\* been dropped can be borrowed
get_device_services(i) ==
    /\ radios[i].state = "live"
    /\ radios[i].uses < MaxUses
    /\ radios' = [radios EXCEPT ![i].uses = @ + 1]
    /\ staleUse' = (staleUse \/ radios[i].handle \notin openHandles)
    /\ UNCHANGED <<rcount, find_handle, radio, radio_info, rret, rcalls, openHandles>>
    /\ UNCHANGED <<devVars, addrVars, strVars, classVars>>

Radio_drop_NoClose(i) ==
    /\ radios[i].state = "live"
    /\ radios' = [radios EXCEPT ![i].state = "dropped"]
    /\ UNCHANGED <<rcount, find_handle, radio, radio_info, rret, rcalls, openHandles, staleUse>>
    /\ UNCHANGED <<devVars, addrVars, strVars, classVars>>

\* impl Drop for Radio: CloseHandle(self.handle)
Radio_drop(i) ==
    /\ radios[i].state = "live"
    /\ radios' = [radios EXCEPT ![i].state = "dropped", ![i].closes = @ + 1]
    /\ openHandles' = openHandles \ {radios[i].handle}
    /\ staleUse' = (staleUse \/ radios[i].handle \notin openHandles)
    /\ UNCHANGED <<rcount, find_handle, radio, radio_info, rret, rcalls>>
    /\ UNCHANGED <<devVars, addrVars, strVars, classVars>>

----------------------------------------------------------------------------
(* Address conversion and printing *)

BaseAddresses == { <<102, 85, 68, 51, 34, 17>>, <<255, 0, 171, 9, 16, 15>>, Zeros(6) }

\* Every byte value at every position
AddressInputs ==
    { [base EXCEPT ![p] = b] : base \in BaseAddresses, p \in 1..6, b \in 0..255 }

InitAddress ==
    /\ rgBytes \in AddressInputs
    /\ address = <<>>
    /\ addrText = <<>>
    /\ apc = "raw"

IdleAddress ==
    /\ rgBytes = Zeros(6)
    /\ address = <<>>
    /\ addrText = <<>>
    /\ apc = "off"

\* Address::from(value) / BluetoothAddress::from(value)
AddressFrom ==
    /\ apc = "raw"
    /\ address' = <<Address_from(rgBytes), BluetoothAddress_from(rgBytes)>>
    /\ apc' = "converted"
    /\ UNCHANGED <<rgBytes, addrText>>
    /\ UNCHANGED <<devVars, radioVars, strVars, classVars>>

\* to_string() of both
AddressToString ==
    /\ apc = "converted"
    /\ addrText' = <<Address_to_string(address[1]), BluetoothAddress_to_string(address[2])>>
    /\ apc' = "printed"
    /\ UNCHANGED <<rgBytes, address>>
    /\ UNCHANGED <<devVars, radioVars, strVars, classVars>>

----------------------------------------------------------------------------
(* u16_slice_to_string *)

\* NUL, 'h', e-acute, a high surrogate (D83D), a low surrogate (DE00)
UnitSamples == {0, 104, 233, 55357, 56832}

HelloSlice == <<104, 101, 108, 108, 111, 0, 0, 0>>

Slices == SeqsUpTo(UnitSamples, MaxLen) \cup {HelloSlice}

InitString ==
    /\ slice \in Slices
    /\ text = <<>>
    /\ spc = "in"

IdleString ==
    /\ slice = <<>>
    /\ text = <<>>
    /\ spc = "off"

\* u16_slice_to_string(slice), both copies
SliceToString ==
    /\ spc = "in"
    /\ text' = <<u16_slice_to_string(slice), main_u16_slice_to_string(slice)>>
    /\ spc' = "out"
    /\ UNCHANGED slice
    /\ UNCHANGED <<devVars, radioVars, addrVars, classVars>>

----------------------------------------------------------------------------
(* from_class_identifier *)

ClassIds ==
    {0, 1, 1344, 65535, 65536, 2147483647}
        \cup ((2360340 - ClassSpan)..(2360344 + ClassSpan))

InitClass ==
    /\ identifier \in ClassIds
    /\ class = <<>>
    /\ cpc = "in"

IdleClass ==
    /\ identifier = 0
    /\ class = <<>>
    /\ cpc = "off"

\* from_class_identifier(identifier), both copies
Classify ==
    /\ cpc = "in"
    /\ class' = <<from_class_identifier(identifier), main_from_class_identifier(identifier)>>
    /\ cpc' = "out"
    /\ UNCHANGED identifier
    /\ UNCHANGED <<devVars, radioVars, addrVars, strVars>>

----------------------------------------------------------------------------
(* Specifications *)

Init == InitDevices /\ IdleRadio /\ IdleAddress /\ IdleString /\ IdleClass

Next == get_bluetooth_devices \/ main_get_bluetooth_devices

Spec == Init /\ [][Next]_vars

RadioInit == IdleDevices /\ InitRadio /\ IdleAddress /\ IdleString /\ IdleClass

RadioNext ==
    \/ get_bluetooth_radio
    \/ \E i \in DOMAIN radios : get_device_services(i)
    \/ \E i \in DOMAIN radios : Radio_drop(i)

SpecRadio == RadioInit /\ [][RadioNext]_vars

AddressInit == IdleDevices /\ IdleRadio /\ InitAddress /\ IdleString /\ IdleClass

AddressNext == AddressFrom \/ AddressToString

SpecAddress == AddressInit /\ [][AddressNext]_vars

StringInit == IdleDevices /\ IdleRadio /\ IdleAddress /\ InitString /\ IdleClass

StringNext == SliceToString

SpecString == StringInit /\ [][StringNext]_vars

ClassInit == IdleDevices /\ IdleRadio /\ IdleAddress /\ IdleString /\ InitClass

ClassNext == Classify

SpecClass == ClassInit /\ [][ClassNext]_vars

----------------------------------------------------------------------------
(* Properties of get_bluetooth_devices *)

CallsOf(log, fn) == { i \in DOMAIN log : log[i].fn = fn }

Ended == pc \in {"done", "panicked"}

\* C1: when get_bluetooth_devices has returned and BluetoothFindFirstDevice
\* gave a non-zero cursor, BluetoothFindDeviceClose was issued exactly once,
\* on that cursor, as the last call and right after the BluetoothFindNextDevice
\* that returned FALSE; when the cursor was zero, no close was issued.
C1_CursorClosedOnce ==
    pc = "done" =>
        IF device_handle # 0
            THEN /\ Cardinality(CallsOf(calls, "BluetoothFindDeviceClose")) = 1
                 /\ calls[Len(calls)] = Call("BluetoothFindDeviceClose", device_handle, 1)
                 /\ calls[Len(calls) - 1] = Call("BluetoothFindNextDevice", device_handle, 0)
            ELSE CallsOf(calls, "BluetoothFindDeviceClose") = {}

\* C3: once get_bluetooth_devices has ended, the result is Err(NoDevicesFound)
\* exactly when the cursor is zero; with a zero cursor no find-next call was
\* made and no device built; with a non-zero cursor the result is Ok and the
\* list is not empty.
C3_ErrIffNoCursor ==
    Ended =>
        /\ (ret = "NoDevicesFound") <=> (device_handle = 0)
        /\ device_handle = 0 =>
                /\ CallsOf(calls, "BluetoothFindNextDevice") = {}
                /\ devices = <<>>
        /\ device_handle # 0 => (ret = "Ok" /\ Len(devices) > 0)

\* C4: when the enumeration ran until BluetoothFindNextDevice returned FALSE,
\* after a first record and k records from find-next calls that returned TRUE,
\* the function has returned Ok with exactly k+1 devices, the i-th being the
\* conversion of the i-th record the OS wrote into the buffer.
C4_ListIsYieldedInOrder ==
    (\E i \in DOMAIN calls : calls[i] = Call("BluetoothFindNextDevice", device_handle, 0)) =>
        LET k == Cardinality({ i \in DOMAIN calls :
                                calls[i] = Call("BluetoothFindNextDevice", device_handle, 1) })
        IN  /\ pc = "done"
            /\ ret = "Ok"
            /\ Len(yielded) = k + 1
            /\ Len(devices) = k + 1
            /\ \A i \in 1..(k + 1) :
                    /\ devices[i].address.address = Reverse(yielded[i].Address)
                    /\ devices[i] = Convert(version, yielded[i]).val
            /\ version = "lib" => \A i \in 1..(k + 1) : devices[i].device_info = yielded[i]

\* Three records enumerated to the end, no two of them equal
C4_Witness ==
    /\ pc = "done"
    /\ ret = "Ok"
    /\ version = "lib"
    /\ Len(devices) = 3
    /\ yielded[1] # yielded[2]
    /\ yielded[2] # yielded[3]
    /\ yielded[1] # yielded[3]

\* C9: converting a record never aborts: get_bluetooth_devices never panics
\* and ends in Ok or Err(NoDevicesFound).
C9_ConversionNeverAborts ==
    /\ pc # "panicked"
    /\ Ended => ret \in {"Ok", "NoDevicesFound"}

----------------------------------------------------------------------------
(* Properties of get_bluetooth_radio and Radio *)

\* C2: every Radio that was dropped had CloseHandle called on its handle
\* exactly once, a Radio that is still alive has had none and its handle is
\* open, two live Radios never share a handle, and no Win32 call (a use by
\* get_device_services, or a close) was ever made on a handle that was not open.
C2_RadioClosedOnce ==
    /\ ~staleUse
    /\ \A i \in DOMAIN radios :
        /\ radios[i].state = "dropped" => radios[i].closes = 1
        /\ radios[i].state = "live" =>
                /\ radios[i].closes = 0
                /\ radios[i].handle \in openHandles
        /\ \A j \in DOMAIN radios :
                (i # j /\ radios[i].state = "live" /\ radios[j].state = "live")
                    => radios[i].handle # radios[j].handle

\* A Radio used and then dropped, and a later Radio alive on the same handle value
C2_Witness ==
    \E i, j \in DOMAIN radios :
        /\ i < j
        /\ radios[i].state = "dropped"
        /\ radios[i].uses > 0
        /\ radios[j].state = "live"
        /\ radios[j].uses > 0
        /\ radios[j].handle = radios[i].handle

\* C5: every get_bluetooth_radio call returns Err(NoRadiosFound) exactly when
\* the find handle is zero, and then it issued only BluetoothFindFirstRadio and
\* created no Radio; otherwise it issued BluetoothFindRadioClose exactly once,
\* on the find handle, after BluetoothGetRadioInfo on the radio handle, and
\* returned one new Radio holding the radio handle BluetoothFindFirstRadio wrote.
C5_RadioResult ==
    [][ rcount' # rcount =>
          /\ rret' \in {"Ok", "NoRadiosFound"}
          /\ (rret' = "NoRadiosFound") <=> (find_handle' = 0)
          /\ find_handle' = 0 =>
                /\ CallsOf(rcalls', "BluetoothGetRadioInfo") = {}
                /\ CallsOf(rcalls', "BluetoothFindRadioClose") = {}
                /\ radios' = radios
                /\ openHandles' = openHandles
          /\ find_handle' # 0 =>
                /\ rcalls'[1].fn = "BluetoothFindFirstRadio"
                /\ rcalls'[1].res = find_handle'
                /\ rcalls'[1].arg = radio'
                /\ \E c \in DOMAIN rcalls' :
                        /\ CallsOf(rcalls', "BluetoothFindRadioClose") = {c}
                        /\ rcalls'[c].arg = find_handle'
                        /\ \E g \in 1..(c - 1) :
                                /\ rcalls'[g].fn = "BluetoothGetRadioInfo"
                                /\ rcalls'[g].arg = radio'
                /\ Len(radios') = Len(radios) + 1
                /\ SubSeq(radios', 1, Len(radios)) = radios
                /\ radios'[Len(radios')].handle = radio'
                /\ radios'[Len(radios')].state = "live"
                /\ radio' # 0
      ]_vars

\* A call that found no radio, after a call that returned a Radio
C5_Witness ==
    /\ rcount = 2
    /\ rret = "NoRadiosFound"
    /\ find_handle = 0
    /\ Len(rcalls) = 1
    /\ Len(radios) = 1
    /\ radios[1].name = <<114, 97, 100>>

----------------------------------------------------------------------------
(* Properties of the address conversion *)

HexValue(c) == CHOOSE n \in 0..15 : HexDigits[n + 1] = c

LowerHexChars == { HexDigits[n] : n \in 1..16 }

\* C6: the Address holds the 6 raw bytes reversed, and to_string is 17
\* characters: 6 groups of two lowercase hex digits separated by ':', the
\* k-th group (from 0) being the value of raw byte 5-k, zero-padded.
C6_AddressReversedHex ==
    /\ apc \in {"converted", "printed"} =>
        \A v \in 1..2 :
            /\ Len(address[v].address) = 6
            /\ \A i \in 0..5 : address[v].address[i + 1] = rgBytes[(5 - i) + 1]
    /\ apc = "printed" =>
        \A v \in 1..2 :
            /\ Len(addrText[v]) = 17
            /\ \A k \in 0..5 :
                /\ addrText[v][3 * k + 1] \in LowerHexChars
                /\ addrText[v][3 * k + 2] \in LowerHexChars
                /\ 16 * HexValue(addrText[v][3 * k + 1]) + HexValue(addrText[v][3 * k + 2])
                        = rgBytes[(5 - k) + 1]
                /\ k < 5 => addrText[v][3 * k + 3] = ":"
    /\ (apc = "printed" /\ rgBytes = <<102, 85, 68, 51, 34, 17>>) =>
        addrText[1] = <<"1", "1", ":", "2", "2", ":", "3", "3", ":",
                        "4", "4", ":", "5", "5", ":", "6", "6">>

\* An address with bytes below 0x10, printed
C6_Witness ==
    /\ apc = "printed"
    /\ rgBytes = <<255, 0, 171, 9, 16, 15>>
    /\ addrText[1] = <<"0", "f", ":", "1", "0", ":", "0", "9", ":",
                       "a", "b", ":", "0", "0", ":", "f", "f">>
    /\ addrText[2] = addrText[1]

----------------------------------------------------------------------------
(* Properties of u16_slice_to_string *)

RECURSIVE encode_utf16(_)
\* str::encode_utf16 of a sequence of Unicode scalar values
encode_utf16(str) ==
    IF str = <<>> THEN <<>>
    ELSE LET c == Head(str)
         IN  IF c < 65536
                THEN <<c>> \o encode_utf16(Tail(str))
                ELSE <<55296 + ((c - 65536) \div 1024), 56320 + ((c - 65536) % 1024)>>
                        \o encode_utf16(Tail(str))

\* 'h', e-acute, U+1F600
ScalarSamples == {104, 233, 128512}

HelloString == <<104, 101, 108, 108, 111>>

\* <<buffer, string>>: the code units of a NUL-free string followed by padding
PaddedCases ==
    { <<encode_utf16(str) \o Zeros(n), str>> :
        str \in SeqsUpTo(ScalarSamples, MaxLen) \cup {HelloString}, n \in 0..MaxLen }

HasNul(str) == \E i \in DOMAIN str : str[i] = 0

PaddedGivesString ==
    spc = "out" =>
        \A v \in 1..2 : \A c \in PaddedCases : (c[1] = slice) => (text[v] = c[2])

\* C7 as stated: a NUL-padded buffer gives the string it holds, and the
\* result of any buffer contains no NUL.
C7_NoNulAnywhere ==
    /\ PaddedGivesString
    /\ spc = "out" => \A v \in 1..2 : ~HasNul(text[v])

\* C7 amended: a NUL-padded buffer gives the string it holds, and the result
\* of any buffer neither starts nor ends with a NUL (a NUL between two other
\* characters is kept).
C7_NoNulAtEnds ==
    /\ PaddedGivesString
    /\ spc = "out" =>
        \A v \in 1..2 :
            text[v] # <<>> => (text[v][1] # 0 /\ text[v][Len(text[v])] # 0)

\* The documented example, and a buffer with a NUL inside and at both ends
C7_Witness ==
    /\ spc = "out"
    /\ \/ slice = HelloSlice /\ text[1] = HelloString /\ text[2] = HelloString
       \/ slice = <<0, 104, 0, 233>> /\ text[1] = <<104, 0, 233>>

----------------------------------------------------------------------------
(* Properties of from_class_identifier *)

\* C8: 2360340 maps to Speaker, 2360344 to Headphones, every other identifier
\* to Other; Headset and Microphone are never returned; both copies agree.
C8_ClassLookup ==
    cpc = "out" =>
        /\ identifier = 2360340 => class[1] = "Speaker"
        /\ identifier = 2360344 => class[1] = "Headphones"
        /\ identifier \notin {2360340, 2360344} => class[1] = "Other"
        /\ class[1] \notin {"Headset", "Microphone"}
        /\ class[2] = class[1]

\* The Headphones identifier, classified
C8_Witness ==
    /\ cpc = "out"
    /\ identifier = 2360344
    /\ class = <<"Headphones", "Headphones">>

====
